---- MODULE Spec2Model ----
(***************************************************************************)
(* A model of wdqsutils.py: the SPARQL result parser, the taxon-identifier *)
(* matching pipelines, the botanical author-citation parser and the        *)
(* QuickStatements emitters built on them.                                  *)
(*                                                                         *)
(* Text is modelled as a sequence of one-character strings, so that the    *)
(* substring operations of the source (count, split, replace, strip) are   *)
(* computed character by character, as Python computes them.               *)
(***************************************************************************)
EXTENDS Integers, Sequences, FiniteSets, TLC

VARIABLES
    pc,        \* position of the running call
    citation,  \* argument of parse_botanical_taxon_author_citation
    parsed,    \* its return value
    r,         \* the response of the Wikidata query service
    uris,      \* parse_sparql_return: names of the bindings read as URIs
    literals,  \* parse_sparql_return: names of the bindings read as text
    out,       \* the records parsed from r
    fn,        \* the entry point that was called
    idx,       \* position of the running loop
    rr,        \* the latest response of a taxonomic authority
    calls,     \* the external calls made so far (requests.get, time.sleep)
    files,     \* the lines written so far, by file
    langcode,  \* argument of the description pipelines
    authors_statements,  \* rows collected for the author citation file
    years_statements,    \* rows collected for the year of publication file
    auths,     \* the author abbreviations to look up
    items_out  \* get_items_from_botanical_author_citation: its list out

(***************************************************************************)
(* Bounds of the model.                                                     *)
(***************************************************************************)
MaxSegs == 4     \* a citation is built of at most MaxSegs pieces of Segments
MaxRows == 2     \* a result document has at most MaxRows result nodes
MaxHits == 2     \* an authority answers with at most MaxHits records

(***************************************************************************)
(* Python string operations.                                                *)
(***************************************************************************)
\* s[i:i+len(sub)] == sub  (i is 1-based)
occurs_at(s, sub, i) ==
    /\ i >= 1
    /\ i + Len(sub) - 1 <= Len(s)
    /\ SubSeq(s, i, i + Len(sub) - 1) = sub

\* str.find from position i: the first index >= i where sub occurs, 0 if none
RECURSIVE str_find(_, _, _)
str_find(s, sub, i) ==
    IF i + Len(sub) - 1 > Len(s) THEN 0
    ELSE IF occurs_at(s, sub, i) THEN i
    ELSE str_find(s, sub, i + 1)

\* str.count(sub): occurrences that do not overlap, scanning from the left
RECURSIVE str_count_from(_, _, _)
str_count_from(s, sub, i) ==
    LET j == str_find(s, sub, i)
    IN  IF j = 0 THEN 0 ELSE 1 + str_count_from(s, sub, j + Len(sub))

str_count(s, sub) == str_count_from(s, sub, 1)

\* sub in s
str_in(sub, s) == str_find(s, sub, 1) # 0

\* str.split(sep): the pieces between the non-overlapping occurrences of sep
RECURSIVE str_split_from(_, _, _)
str_split_from(s, sep, i) ==
    LET j == str_find(s, sep, i)
    IN  IF j = 0 THEN << SubSeq(s, i, Len(s)) >>
        ELSE << SubSeq(s, i, j - 1) >> \o str_split_from(s, sep, j + Len(sep))

str_split(s, sep) == str_split_from(s, sep, 1)

\* re.split(r',|&', s): a new piece starts after every ',' and every '&'
RECURSIVE re_split_from(_, _, _)
re_split_from(s, i, start) ==
    IF i > Len(s) THEN << SubSeq(s, start, Len(s)) >>
    ELSE IF s[i] \in {",", "&"}
         THEN << SubSeq(s, start, i - 1) >> \o re_split_from(s, i + 1, i + 1)
         ELSE re_split_from(s, i + 1, start)

re_split(s) == re_split_from(s, 1, 1)

\* str.replace(old, new): every non-overlapping occurrence, in one pass
RECURSIVE str_replace_from(_, _, _, _)
str_replace_from(s, old, new, i) ==
    IF i > Len(s) THEN << >>
    ELSE IF occurs_at(s, old, i)
         THEN new \o str_replace_from(s, old, new, i + Len(old))
         ELSE << s[i] >> \o str_replace_from(s, old, new, i + 1)

str_replace(s, old, new) == str_replace_from(s, old, new, 1)

\* the whitespace characters str.strip removes
Whitespace == {" ", "\t", "\n"}

RECURSIVE str_rstrip(_)
str_rstrip(s) ==
    IF Len(s) > 0 /\ s[Len(s)] \in Whitespace
    THEN str_rstrip(SubSeq(s, 1, Len(s) - 1))
    ELSE s

RECURSIVE str_lstrip(_)
str_lstrip(s) ==
    IF Len(s) > 0 /\ s[1] \in Whitespace THEN str_lstrip(Tail(s)) ELSE s

(***************************************************************************)
(* parse_botanical_taxon_author_citation                                    *)
(***************************************************************************)
SepEx == << " ", "e", "x", " " >>
SepIn == << " ", "i", "n", " " >>

\* the value of a call that ends in a bare "return"
NoCitation == [ret |-> "None", keys |-> {}, ex_auth |-> << >>, auth |-> << >>]

\* a.replace('. ','.').rstrip().lstrip()
normalize_author(a) == str_lstrip(str_rstrip(str_replace(a, << ".", " " >>, << "." >>)))

\* [a.replace('. ','.').rstrip().lstrip() for a in re.split(r',|&', text)]
author_list(text) ==
    LET pieces == re_split(text)
    IN  [k \in 1..Len(pieces) |-> normalize_author(pieces[k])]

\* lines 708-713: the basionym authors are dropped
drop_basionym(c) ==
    IF str_count(c, << ")" >>) = 1 THEN str_split(c, << ")" >>)[2] ELSE c

\* has_punctuation with the test for '?' left out
has_punctuation_no_qmark(c) == str_in(<< ":" >>, c) \/ str_in(<< ";" >>, c)

\* has_punctuation looking only at the text before a single ' in '
has_punctuation_before_in(c) ==
    LET t == IF str_count(c, SepIn) = 1 THEN str_split(c, SepIn)[1] ELSE c
    IN  str_in(<< ":" >>, t) \/ str_in(<< ";" >>, t) \/ str_in(<< "?" >>, t)

\* line 714
has_punctuation(c) ==
    str_in(<< ":" >>, c) \/ str_in(<< ";" >>, c) \/ str_in(<< "?" >>, c)

\* lines 717-718
drop_in(c) == IF str_count(c, SepIn) = 1 THEN str_split(c, SepIn)[1] ELSE c

\* split_ex with the two sides of ' ex ' taken the wrong way round
split_ex_swapped(c) ==
    IF str_count(c, SepEx) > 1 THEN NoCitation
    ELSE IF str_count(c, SepEx) = 1
    THEN LET parts == str_split(c, SepEx)
         IN  [ret |-> "dict", keys |-> {"ex_auth", "auth"},
              ex_auth |-> author_list(parts[2]), auth |-> author_list(parts[1])]
    ELSE [ret |-> "dict", keys |-> {"auth"},
          ex_auth |-> << >>, auth |-> author_list(c)]

\* lines 719-732
split_ex(c) ==
    IF str_count(c, SepEx) > 1 THEN NoCitation
    ELSE IF str_count(c, SepEx) = 1
    THEN LET parts == str_split(c, SepEx)
         IN  [ret |-> "dict", keys |-> {"ex_auth", "auth"},
              ex_auth |-> author_list(parts[1]), auth |-> author_list(parts[2])]
    ELSE [ret |-> "dict", keys |-> {"auth"},
          ex_auth |-> << >>, auth |-> author_list(c)]

parse_botanical_taxon_author_citation(c) ==
    IF str_count(c, << ")" >>) > 1 THEN NoCitation
    ELSE LET c1 == drop_basionym(c)
         IN  IF has_punctuation(c1) THEN NoCitation
             ELSE split_ex(drop_in(c1))

(***************************************************************************)
(* The citation strings the parser is run on: every concatenation of at    *)
(* most MaxSegs pieces, and the citations the documentation gives.         *)
(***************************************************************************)
Segments ==
    { << "A" >>, << "B" >>, << "." >>, << " " >>, << "," >>, << "&" >>,
      << ")" >>, << ":" >>, << ";" >>, << "?" >>, SepEx, SepIn }

RECURSIVE Flatten(_)
Flatten(ss) == IF ss = << >> THEN << >> ELSE Head(ss) \o Flatten(Tail(ss))

DocCitation ==
    <<"(", "B", ".", "C", ".", " ", "Z", "h", "a", "n", "g", " ", "&", " ",
      "Y", ".", "N", ".", " ", "Y", "u", ")", " ", "T", "r", "a", "p", "p",
      "e", ",", " ", "T", ".", " ", "L", "e", "b", "e", "l", " ", "&", " ",
      "C", "a", "s", "t", "e", "l", "l", "a", "n", "o">>
FrExFr == <<"F", "r", ".", " ", "e", "x", " ", "F", "r", ".">>
AExBExC == <<"A", " ", "e", "x", " ", "B", " ", "e", "x", " ", "C">>
ASemiB == <<"A", ";", " ", "B">>

\* two spaces after an initial's period
DoubleSpace == <<"A", ".", " ", " ", "B">>

Examples == { DocCitation, FrExFr, AExBExC, ASemiB, DoubleSpace }

(***************************************************************************)
(* The SPARQL result document.  A response is [ok, results]; a result node  *)
(* is a function from the names of its bindings to the bindings; a binding  *)
(* is [kind, text], kind naming its one child node (uri or literal).        *)
(***************************************************************************)
Uri(t) == [kind |-> "uri", text |-> t]
Literal(t) == [kind |-> "literal", text |-> t]

\* entity URIs; only the text after the last '/' is the QID
U1 == << "w", "d", "/", "e", "/", "Q", "1" >>
U2 == << "w", "d", "/", "e", "/", "Q", "2" >>
Q1 == << "Q", "1" >>
Q2 == << "Q", "2" >>

\* taxon names
Aus == << "A", "u", "s" >>
Bus == << "B", "u", "s" >>

\* sequences over S of length at most n
SeqUpTo(S, n) == UNION { [1..k -> S] : k \in 0..n }

(***************************************************************************)
(* parse_sparql_return                                                      *)
(***************************************************************************)
\* text.split("/")[-1]
last_segment(text) ==
    LET segs == str_split(text, << "/" >>) IN segs[Len(segs)]

\* res_dict[key].find('uri') or .find('literal') finds no such child, and
\* .text of None raises AttributeError
row_raises(e, us, ls) ==
    \/ \E key \in us \cap DOMAIN e : e[key].kind # "uri"
    \/ \E key \in ls \cap DOMAIN e : e[key].kind # "literal"

\* lines 34-40: every binding of the node is a key of res_dict; the declared
\* ones are replaced by their value, the others stay the binding itself
res_dict(e, us, ls) ==
    [key \in DOMAIN e |->
        IF key \in us THEN last_segment(e[key].text)
        ELSE IF key \in ls THEN e[key].text
        ELSE e[key]]

\* the value of a call: a list, None (response not ok), or an exception
\* that leaves the call
parse_sparql_return(resp, us, ls) ==
    IF ~ resp.ok THEN [status |-> "None", recs |-> << >>]
    ELSE IF \E k \in 1..Len(resp.results) : row_raises(resp.results[k], us, ls)
    THEN [status |-> "raised", recs |-> << >>]
    ELSE [status |-> "list",
          recs |-> [k \in 1..Len(resp.results) |-> res_dict(resp.results[k], us, ls)]]

NoResponse == [ok |-> FALSE, results |-> << >>]
NotCalled == [status |-> "None", recs |-> << >>]

(***************************************************************************)
(* Values shared by the pipelines.                                          *)
(***************************************************************************)
\* '"""' + text + '"""'
TripleQuote(text) == << "\"\"\"" >> \o text \o << "\"\"\"" >>

\* datetime.datetime.utcnow().strftime("+%Y-%m-%dT00:00:00Z/11"), on the
\* day of the run
retrieved == << "+2026-11-03T00:00:00Z/11" >>

\* the arguments of the identifier pipelines
highertaxon_name == << "Fungi" >>
highertaxon_rank == "kingdom"
rank == "genus"

\* an HTTP response: requests sets ok for every status below 400
HttpOk(resp) == resp.status_code < 400
Status(code) == [status_code |-> code, body |-> << >>]
NoAnswer == Status(0)

\* a dict, in insertion order: a sequence of [key, val]
dict_has(d, key) == \E k \in 1..Len(d) : d[k].key = key

\* defaultdict(list): d[key].append(v)
dict_append(d, key, v) ==
    IF dict_has(d, key)
    THEN [k \in 1..Len(d) |->
            IF d[k].key = key THEN [d[k] EXCEPT !.val = Append(@, v)] ELSE d[k]]
    ELSE Append(d, [key |-> key, val |-> << v >>])

\* a request and the status of its response; a response of the query service
\* is [ok, results], and 200 stands for every ok status of it
Get(url, arg, status) ==
    [call |-> "requests.get", url |-> url, arg |-> arg, status |-> status]
QueryStatus(resp) == IF resp.ok THEN 200 ELSE 500

(***************************************************************************)
(* Variables by the call that uses them, and their values when unused.      *)
(***************************************************************************)
citeVars == << citation, parsed >>
parseVars == << uris, literals >>
listVars == << authors_statements, years_statements >>
authVars == << auths, items_out >>
pipeVars == << fn, idx, rr, calls, files, langcode, listVars, authVars >>
vars == << pc, r, out, citeVars, parseVars, pipeVars >>

IdleCite == citation = << >> /\ parsed = NoCitation
IdleParse == uris = {} /\ literals = {}
IdleLists == authors_statements = << >> /\ years_statements = << >>
IdleAuth == auths = << >> /\ items_out = << >>
IdlePipe ==
    /\ fn = "none"
    /\ idx = 0
    /\ rr = NoAnswer
    /\ calls = << >>
    /\ files = << >>
    /\ langcode = "en"
    /\ IdleLists
    /\ IdleAuth

(***************************************************************************)
(* get_taxa_missing_identifier                                              *)
(***************************************************************************)
\* lines 388-390 raise (KeyError, AttributeError) and the row is printed
taxa_row_raises(e) ==
    \/ "item" \notin DOMAIN e
    \/ e.item.kind # "uri"
    \/ "taxonName" \notin DOMAIN e
    \/ e.taxonName.kind # "literal"

\* lines 386-394, from result node k on
RECURSIVE taxa_rows_from(_, _, _)
taxa_rows_from(results, k, d) ==
    IF k > Len(results) THEN d
    ELSE IF taxa_row_raises(results[k]) THEN taxa_rows_from(results, k + 1, d)
    ELSE LET qid == last_segment(results[k].item.text)
             taxonName == results[k].taxonName.text
         IN  taxa_rows_from(results, k + 1,
                 dict_append(d, taxonName, [qid |-> qid, taxonName |-> taxonName]))

get_taxa_missing_identifier(resp) ==
    IF resp.ok THEN taxa_rows_from(resp.results, 1, << >>) ELSE << >>

\* the result nodes the query for taxa without an identifier may hold
TaxaRows ==
    { [item |-> Uri(U), taxonName |-> Literal(N)] : U \in {U1, U2}, N \in {Aus, Bus} }
    \cup { [item |-> Literal(Aus), taxonName |-> Literal(Aus)], [item |-> Uri(U1)] }

TaxaResponses ==
    {NoResponse} \cup { [ok |-> TRUE, results |-> d] : d \in SeqUpTo(TaxaRows, MaxRows) }

(***************************************************************************)
(* quickstatements_taxon_add_IRMNG_ID                                       *)
(***************************************************************************)
\* the records IRMNG may return: record j has IRMNG_ID 100 + j; its higher
\* taxon field is right, differs in case, or is missing
IrmngHit(j, v) ==
    IF v = "none" THEN [IRMNG_ID |-> 100 + j]
    ELSE [IRMNG_ID |-> 100 + j, kingdom |-> << v >>]

IrmngResponses ==
    { Status(500), Status(204) } \cup
    { [status_code |-> 200, body |-> [j \in 1..n |-> IrmngHit(j, f[j])]] :
        n \in 0..MaxHits, f \in [1..MaxHits -> {"Fungi", "fungi", "none"}] }

\* lines 430-435
irmng_ret(body) ==
    LET keep(rec) == highertaxon_rank \in DOMAIN rec
                     /\ rec[highertaxon_rank] = highertaxon_name
        kept == SelectSeq(body, keep)
    IN  [k \in 1..Len(kept) |-> kept[k].IRMNG_ID]

\* irmng_accept taking the first of several hits
irmng_accept_first(ret) == Len(ret) >= 1

\* line 436
irmng_accept(ret) == Len(ret) = 1

IrmngFile == "add_P5055.csv"
IrmngHeader == << << "qid,P5055,S248,s813,#" >> >>

\* lines 442-450: the fields that are comma-joined
irmng_line(rec) ==
    << rec.qid,
       TripleQuote(<< ToString(rec.irmng_id) >>),
       << "Q51885189" >>,
       rec.retrieved,
       << "matched by name and ", highertaxon_rank, " " >> \o highertaxon_name
           \o << " to IRMNG" >> >>

(***************************************************************************)
(* quickstatements_taxon_add_GBIF_ID                                        *)
(***************************************************************************)
\* the answers of the GBIF match service: no match, or one usage whose
\* higher taxon field is right, differs in case, or is missing
GbifResponses ==
    { Status(500),
      [status_code |-> 200, body |-> [matchType |-> "NONE"]],
      [status_code |-> 200, body |-> [matchType |-> "EXACT", usageKey |-> 7]],
      [status_code |-> 200,
       body |-> [matchType |-> "EXACT", usageKey |-> 7, kingdom |-> << "fungi" >>]],
      [status_code |-> 200,
       body |-> [matchType |-> "EXACT", usageKey |-> 7, kingdom |-> << "Fungi" >>]] }

\* gbif_accept trusting the service's match without the check of the higher taxon
gbif_accept_any_exact(resp) ==
    /\ HttpOk(resp)
    /\ resp.status_code = 200
    /\ resp.body.matchType = "EXACT"

\* lines 484-489
gbif_accept(resp) ==
    /\ HttpOk(resp)
    /\ resp.status_code = 200
    /\ resp.body.matchType = "EXACT"
    /\ highertaxon_rank \in DOMAIN resp.body
    /\ resp.body[highertaxon_rank] = highertaxon_name

GbifFile == "add_P846.csv"
GbifHeader == << << "qid,P846,S248,s813,#" >> >>

\* lines 497-505
gbif_line(rec) ==
    << rec.qid,
       TripleQuote(<< ToString(rec.gbif_id) >>),
       << "Q1531570" >>,
       rec.retrieved,
       << "matched by name and ", highertaxon_rank, " " >> \o highertaxon_name
           \o << " to GBIF" >> >>

(***************************************************************************)
(* quickstatements_taxon_add_IndexFungorum_ID                               *)
(***************************************************************************)
rank_abbrevs == [species |-> << "sp." >>, genus |-> << "gen." >>, family |-> << "fam." >>]

\* the records the Index Fungorum name search may return for a name:
\* record j has RECORD NUMBER j; it is the name at the rank asked for, a
\* longer name, the name at another rank, or a record without AUTHORS
IxfHit(j, v, name) ==
    LET full == [RECORD_x0020_NUMBER |-> << ToString(j) >>,
                 NAME_x0020_OF_x0020_FUNGUS |->
                     IF v = "name" THEN name \o << " ", "x" >> ELSE name,
                 INFRASPECIFIC_x0020_RANK |->
                     IF v = "rank" THEN rank_abbrevs["species"] ELSE rank_abbrevs[rank]]
    IN  IF v = "anon" THEN full ELSE full @@ [AUTHORS |-> << "Fr." >>]

IxfResponses(name) ==
    { Status(500) } \cup
    { [status_code |-> 200, body |-> [j \in 1..n |-> IxfHit(j, f[j], name)]] :
        n \in 0..MaxHits, f \in [1..MaxHits -> {"hit", "name", "rank", "anon"}] }

\* lines 543-553
ixf_recs(body, taxonName) ==
    LET keep(rec) == /\ "AUTHORS" \in DOMAIN rec
                     /\ rec.NAME_x0020_OF_x0020_FUNGUS = taxonName
                     /\ rec.INFRASPECIFIC_x0020_RANK = rank_abbrevs[rank]
    IN  SelectSeq(body, keep)

\* ixf_accept taking the first of several hits
ixf_accept_first(recs) == Len(recs) >= 1

\* line 554
ixf_accept(recs) == Len(recs) = 1

IxfFile == "add_P1391.csv"
IxfHeader == << << "qid,P1391,S248,s813,#,P6507,S248,s813" >> >>

\* lines 561-572
ixf_line(rec) ==
    << rec.qid,
       TripleQuote(rec.id),
       << "Q1860469" >>,
       rec.retrieved,
       << "matched by name and rank to Index Fungorum" >>,
       TripleQuote(rec.taxon_author_citation),
       << "Q1860469" >>,
       rec.retrieved >>

(***************************************************************************)
(* The steps of the three identifier pipelines.                             *)
(***************************************************************************)
IdentFns == {"quickstatements_taxon_add_IRMNG_ID",
             "quickstatements_taxon_add_GBIF_ID",
             "quickstatements_taxon_add_IndexFungorum_ID"}

IdentFile(f) ==
    IF f = "quickstatements_taxon_add_IRMNG_ID" THEN IrmngFile
    ELSE IF f = "quickstatements_taxon_add_GBIF_ID" THEN GbifFile
    ELSE IxfFile

IdentHeader(f) ==
    IF f = "quickstatements_taxon_add_IRMNG_ID" THEN IrmngHeader
    ELSE IF f = "quickstatements_taxon_add_GBIF_ID" THEN GbifHeader
    ELSE IxfHeader

\* the gate letting every key through that has a record
one_record_or_more(group) == Len(group) >= 1

\* lines 425, 475 and 531: len(out[name]) == 1
one_record(group) == Len(group) = 1

\* the loop ending after its first key
next_key_stops(n) ==
    /\ idx' = idx + 1
    /\ pc' = "done"

\* write_line writing the row twice
write_line_twice(fs, name, line) ==
    [fs EXCEPT ![name] = Append(Append(@, line), line)]

\* write_line putting the row right after the header
write_line_after_header(fs, name, line) ==
    [fs EXCEPT ![name] = << @[1], line >> \o SubSeq(@, 2, Len(@))]

\* fh.write(','.join(line)); fh.write("\n")
write_line(fs, name, line) == [fs EXCEPT ![name] = Append(@, line)]

\* the loop moves to the next key of out, and the file is closed after the last
next_key(n) ==
    /\ idx' = idx + 1
    /\ pc' = IF idx + 1 > n THEN "done" ELSE "loop"

\* lines 419-423 (and 468-473, 519-529): the query, then the header
GetTaxaMissingIdentifier ==
    /\ pc = "start"
    /\ fn \in IdentFns
    /\ \E r1 \in TaxaResponses :
        /\ r' = r1
        /\ out' = get_taxa_missing_identifier(r1)
        /\ calls' = Append(calls, Get("wdqs", << fn >>, QueryStatus(r1)))
        /\ IF r1.ok
           THEN /\ files' = (IdentFile(fn) :> << IdentHeader(fn) >>)
                /\ idx' = 1
                /\ pc' = IF Len(out') = 0 THEN "done" ELSE "loop"
           ELSE /\ pc' = "done"
                /\ UNCHANGED << files, idx >>
    /\ UNCHANGED << fn, rr, langcode, listVars, authVars, citeVars, parseVars >>

\* lines 424-451: one key of out
IrmngStep ==
    /\ pc = "loop"
    /\ fn = "quickstatements_taxon_add_IRMNG_ID"
    /\ LET taxonName == out[idx].key
       IN  IF one_record(out[idx].val)
           THEN \E resp \in IrmngResponses :
                  /\ rr' = resp
                  /\ calls' = Append(calls, Get("irmng", taxonName, resp.status_code))
                  /\ IF HttpOk(resp) /\ resp.status_code = 200
                        /\ irmng_accept(irmng_ret(resp.body))
                     THEN LET rec == out[idx].val[1] @@
                                     [irmng_id |-> irmng_ret(resp.body)[1],
                                      retrieved |-> retrieved]
                          IN  /\ out' = [out EXCEPT ![idx].val = << rec >>]
                              /\ files' = write_line(files, IrmngFile, irmng_line(rec))
                     ELSE UNCHANGED << out, files >>
           ELSE UNCHANGED << rr, calls, out, files >>
    /\ next_key(Len(out))
    /\ UNCHANGED << fn, r, langcode, listVars, authVars, citeVars, parseVars >>

\* lines 474-506: one key of out
GbifStep ==
    /\ pc = "loop"
    /\ fn = "quickstatements_taxon_add_GBIF_ID"
    /\ IF one_record(out[idx].val)
       THEN \E resp \in GbifResponses :
              /\ rr' = resp
              /\ calls' = Append(calls, Get("gbif", out[idx].val[1].taxonName, resp.status_code))
              /\ IF gbif_accept(resp)
                 THEN LET rec == out[idx].val[1] @@
                                 [gbif_id |-> resp.body.usageKey,
                                  retrieved |-> retrieved]
                      IN  /\ out' = [out EXCEPT ![idx].val = << rec >>]
                          /\ files' = write_line(files, GbifFile, gbif_line(rec))
                 ELSE UNCHANGED << out, files >>
       ELSE UNCHANGED << rr, calls, out, files >>
    /\ next_key(Len(out))
    /\ UNCHANGED << fn, r, langcode, listVars, authVars, citeVars, parseVars >>

\* lines 530-573: one key of out
IndexFungorumStep ==
    /\ pc = "loop"
    /\ fn = "quickstatements_taxon_add_IndexFungorum_ID"
    /\ IF one_record(out[idx].val)
       THEN \E resp \in IxfResponses(out[idx].val[1].taxonName) :
              /\ rr' = resp
              /\ calls' = Append(calls, Get("indexfungorum", out[idx].val[1].taxonName, resp.status_code))
              /\ IF HttpOk(resp) /\ resp.status_code = 200
                    /\ ixf_accept(ixf_recs(resp.body, out[idx].val[1].taxonName))
                 THEN LET recs == ixf_recs(resp.body, out[idx].val[1].taxonName)
                          rec == out[idx].val[1] @@
                                 [id |-> recs[1].RECORD_x0020_NUMBER,
                                  taxon_author_citation |-> recs[1].AUTHORS,
                                  retrieved |-> retrieved]
                      IN  /\ out' = [out EXCEPT ![idx].val = << rec >>]
                          /\ files' = write_line(files, IxfFile, ixf_line(rec))
                 ELSE UNCHANGED << out, files >>
       ELSE UNCHANGED << rr, calls, out, files >>
    /\ next_key(Len(out))
    /\ UNCHANGED << fn, r, langcode, listVars, authVars, citeVars, parseVars >>

(***************************************************************************)
(* SpecCite: one call of parse_botanical_taxon_author_citation.            *)
(***************************************************************************)
InitCite ==
    /\ pc = "call"
    /\ \/ \E n \in 0..MaxSegs : \E f \in [1..n -> Segments] : citation = Flatten(f)
       \/ citation \in Examples
    /\ parsed = NoCitation
    /\ r = NoResponse
    /\ out = NotCalled
    /\ IdleParse
    /\ IdlePipe

ParseCitation ==
    /\ pc = "call"
    /\ parsed' = parse_botanical_taxon_author_citation(citation)
    /\ pc' = "done"
    /\ UNCHANGED << citation, r, out, parseVars, pipeVars >>

NextCite == ParseCitation

SpecCite == InitCite /\ [][NextCite]_vars

(***************************************************************************)
(* SpecParse: one call of parse_sparql_return, on documents whose result    *)
(* nodes bind "item" (a URI) and "itemLabel" (a literal), each declared by  *)
(* the caller or not.                                                       *)
(***************************************************************************)
ParseRows ==
    { << >>,
      [item |-> Uri(U1)],
      [item |-> Uri(U2)],
      [itemLabel |-> Literal(Aus)],
      [item |-> Uri(U1), itemLabel |-> Literal(Aus)],
      [item |-> Uri(U2), itemLabel |-> Literal(Bus)],
      [item |-> Literal(Aus)] }

InitParse ==
    /\ pc = "call"
    /\ r \in {NoResponse} \cup { [ok |-> TRUE, results |-> d] : d \in SeqUpTo(ParseRows, MaxRows) }
    /\ uris \in SUBSET {"item"}
    /\ literals \in SUBSET {"itemLabel"}
    /\ out = NotCalled
    /\ IdleCite
    /\ IdlePipe

ParseSparqlReturn ==
    /\ pc = "call"
    /\ LET ret == parse_sparql_return(r, uris, literals)
       IN  /\ out' = ret
           /\ pc' = IF ret.status = "raised" THEN "raised" ELSE "done"
    /\ UNCHANGED << r, citeVars, parseVars, pipeVars >>

NextParse == ParseSparqlReturn

SpecParse == InitParse /\ [][NextParse]_vars

(***************************************************************************)
(* get_taxa_missing_descs, quickstatements_taxon_add_desc and               *)
(* quickstatements_taxon_add_desc_long                                      *)
(***************************************************************************)
\* the arguments desc and vernacular_name
desc_arg == << "species of ciliate" >>
vernacular_name == << "ciliates" >>

DescUris == {"item"}
DescLiterals == {"itemLabel", "parentTaxonRankLabel", "parentTaxonName"}

\* the result nodes of the query for taxa without a description: with and
\* without the parent taxon's name and rank, and one whose item is no URI
DescRows ==
    { [item |-> Uri(U1), itemLabel |-> Literal(Aus),
       parentTaxonRankLabel |-> Literal(<< "family" >>), parentTaxonName |-> Literal(Bus)],
      [item |-> Uri(U2), itemLabel |-> Literal(Bus)],
      [item |-> Literal(Aus), itemLabel |-> Literal(Aus)] }

DescResponses ==
    {NoResponse} \cup { [ok |-> TRUE, results |-> d] : d \in SeqUpTo(DescRows, MaxRows) }

DescFile == "add_D.csv"
DescHeader == << << "qid" >>, << "D", langcode >>, << "#" >> >>

\* line 145
desc_line(rec) == << rec.item, desc_arg, << "add ", langcode, " descriptions" >> >>

rankLang == [de |-> [species |-> "Art", genus |-> "Gattung", family |-> "Familie"]]

\* lines 191-195
desc_long_line(rec) ==
    LET desc == IF langcode = "en"
                THEN << rank, " of " >> \o vernacular_name \o << " in the " >>
                     \o rec.parentTaxonRankLabel \o << " " >> \o rec.parentTaxonName
                ELSE << rankLang["de"][rank], " der " >> \o vernacular_name \o << " der " >>
                     \o rec.parentTaxonRankLabel \o << " " >> \o rec.parentTaxonName
    IN  << rec.item, desc, << "add ", langcode, " descriptions" >> >>

\* lines 134-150
QuickstatementsTaxonAddDesc ==
    /\ pc = "start"
    /\ fn = "quickstatements_taxon_add_desc"
    /\ \E r1 \in DescResponses :
        LET ret == parse_sparql_return(r1, DescUris, DescLiterals)
        IN  /\ r' = r1
            /\ calls' = Append(calls, Get("wdqs", << fn >>, QueryStatus(r1)))
            /\ IF ret.status = "raised"
               THEN pc' = "raised" /\ UNCHANGED << out, files >>
               ELSE /\ out' = ret.recs
                    /\ pc' = "done"
                    /\ files' =
                         IF r1.ok
                         THEN DescFile :>
                                (<< DescHeader >> \o
                                 [k \in 1..Len(ret.recs) |-> desc_line(ret.recs[k])])
                         ELSE files
    /\ UNCHANGED << fn, idx, rr, langcode, listVars, authVars, citeVars, parseVars >>

\* lines 176-200
QuickstatementsTaxonAddDescLong ==
    /\ pc = "start"
    /\ fn = "quickstatements_taxon_add_desc_long"
    /\ \E r1 \in DescResponses :
        LET ret == parse_sparql_return(r1, DescUris, DescLiterals)
            named(rec) == "parentTaxonName" \in DOMAIN rec
                          /\ "parentTaxonRankLabel" \in DOMAIN rec
            recs == SelectSeq(ret.recs, named)
        IN  /\ r' = r1
            /\ calls' = Append(calls, Get("wdqs", << fn >>, QueryStatus(r1)))
            /\ IF ret.status = "raised"
               THEN pc' = "raised" /\ UNCHANGED << out, files >>
               ELSE /\ out' = ret.recs
                    /\ pc' = "done"
                    /\ files' =
                         IF r1.ok
                         THEN DescFile :>
                                (<< DescHeader >> \o
                                 [k \in 1..Len(recs) |-> desc_long_line(recs[k])])
                         ELSE files
    /\ UNCHANGED << fn, idx, rr, langcode, listVars, authVars, citeVars, parseVars >>

(***************************************************************************)
(* get_articles_missing_descs and quickstatements_articles_add_desc         *)
(***************************************************************************)
ArticleRows ==
    { [item |-> Uri(U1), date |-> Literal(<< "2", "0", "2", "0", "-", "0", "1" >>)],
      [item |-> Uri(U2), date |-> Literal(<< "1", "9", "9", "9", "-", "1", "2" >>)],
      [item |-> Literal(Aus), date |-> Literal(<< "2", "0", "2", "0", "-", "0", "1" >>)] }

ArticleResponses ==
    {NoResponse} \cup { [ok |-> TRUE, results |-> d] : d \in SeqUpTo(ArticleRows, MaxRows) }

desc_prefix == [en |-> << "scholarly article published in " >>, de |-> << "im Jahr " >>]
desc_suffix == [en |-> << >>, de |-> << " veroeffentlichter wissenschaftlicher Artikel" >>]

\* lines 285-286: rec['year'] = rec['date'].split("-")[0]
with_year(rec) == rec @@ [year |-> str_split(rec.date, << "-" >>)[1]]

\* lines 328-332
article_line(rec) ==
    << rec.item,
       desc_prefix[langcode] \o rec.year \o desc_suffix[langcode],
       << "add ", langcode, " descriptions" >> >>

\* lines 283-287 and 300-337.  parse_sparql_return returns None for a
\* response that is not ok, and "for rec in out" then raises TypeError
QuickstatementsArticlesAddDesc ==
    /\ pc = "start"
    /\ fn = "quickstatements_articles_add_desc"
    /\ \E r1 \in ArticleResponses :
        LET ret == parse_sparql_return(r1, {"item"}, {"date"})
            recs == [k \in 1..Len(ret.recs) |-> with_year(ret.recs[k])]
        IN  /\ r' = r1
            /\ calls' = Append(calls, Get("wdqs", << fn >>, QueryStatus(r1)))
            /\ IF ret.status # "list"
               THEN pc' = "raised" /\ UNCHANGED << out, files >>
               ELSE /\ out' = recs
                    /\ pc' = "done"
                    /\ files' = DescFile :>
                                (<< DescHeader >> \o
                                 [k \in 1..Len(recs) |-> article_line(recs[k])])
    /\ UNCHANGED << fn, idx, rr, langcode, listVars, authVars, citeVars, parseVars >>

(***************************************************************************)
(* get_fungi_missing_taxon_author_citation and                              *)
(* quickstatements_taxon_author_citations_from_index_fungorum               *)
(***************************************************************************)
FungiUris == {"item"}
FungiLiterals == {"indexFungorum", "taxonName", "yearTaxonPublication"}

\* the result nodes of the query: without and with a year of publication,
\* and one whose item is no URI
FungiRows ==
    { [item |-> Uri(U1), indexFungorum |-> Literal(<< "1" >>), taxonName |-> Literal(Aus)],
      [item |-> Uri(U2), indexFungorum |-> Literal(<< "2" >>), taxonName |-> Literal(Bus),
       yearTaxonPublication |-> Literal(<< "1821" >>)],
      [item |-> Literal(Aus), indexFungorum |-> Literal(<< "1" >>),
       taxonName |-> Literal(Aus)] }

FungiResponses ==
    {NoResponse} \cup { [ok |-> TRUE, results |-> d] : d \in SeqUpTo(FungiRows, MaxRows) }

\* the IndexFungorum elements NameByKey may return: with AUTHORS and YEAR OF
\* PUBLICATION, or with one of them missing
NameHit(v) ==
    IF v = "anon" THEN [YEAR_x0020_OF_x0020_PUBLICATION |-> << "1801" >>]
    ELSE IF v = "undated" THEN [AUTHORS |-> << "Fr." >>]
    ELSE [AUTHORS |-> << "Fr." >>, YEAR_x0020_OF_x0020_PUBLICATION |-> << "1801" >>]

NameByKeyResponses ==
    { Status(500) } \cup
    { [status_code |-> 200, body |-> [j \in 1..n |-> NameHit(f[j])]] :
        n \in 0..MaxHits, f \in [1..MaxHits -> {"hit", "anon", "undated"}] }

AuthorsFile == "add_taxon_author_citation.csv"
YearsFile == "add_year_taxon_pub.csv"
AuthorsHeader == << << "qid" >>, << "P6507" >>, << "S248" >>, << "s813" >> >>
YearsHeader == << << "qid" >>, << "P225" >>, << "qal574" >>, << "S248" >>, << "s813" >> >>

\* line 629
has_authors_and_year(rrec) ==
    "AUTHORS" \in DOMAIN rrec /\ "YEAR_x0020_OF_x0020_PUBLICATION" \in DOMAIN rrec

\* lines 631-637
out_y(rec, rrec) ==
    << rec.item,
       TripleQuote(rec.taxonName),
       << "+" >> \o rrec.YEAR_x0020_OF_x0020_PUBLICATION \o << "-01-01T00:00:00Z/9" >>,
       << "Q1860469" >>,
       retrieved >>

\* lines 639-644
out_a(rec, rrec) ==
    << rec.item, TripleQuote(rrec.AUTHORS), << "Q1860469" >>, retrieved >>

\* lines 627-645: the rows one response adds to authors_statements
authors_rows(rec, body) ==
    LET hits == SelectSeq(body, has_authors_and_year)
    IN  [k \in 1..Len(hits) |-> out_a(rec, hits[k])]

\* lines 627-638: the rows one response adds to years_statements
years_rows(rec, body) ==
    LET hits == SelectSeq(body, has_authors_and_year)
    IN  IF "yearTaxonPublication" \notin DOMAIN rec
        THEN [k \in 1..Len(hits) |-> out_y(rec, hits[k])]
        ELSE << >>

\* lines 647-654
write_statements(authors, years) ==
    (AuthorsFile :> authors) @@ (YearsFile :> years)

\* lines 612-619, and 646-654 when there is no record to look up
GetFungiMissingTaxonAuthorCitation ==
    /\ pc = "start"
    /\ fn = "quickstatements_taxon_author_citations_from_index_fungorum"
    /\ \E r1 \in FungiResponses :
        LET ret == parse_sparql_return(r1, FungiUris, FungiLiterals)
        IN  /\ r' = r1
            /\ calls' = Append(calls, Get("wdqs", << fn >>, QueryStatus(r1)))
            /\ IF ret.status = "raised"
               THEN pc' = "raised"
                    /\ UNCHANGED << out, files, idx, listVars >>
               ELSE IF ~ r1.ok
               THEN pc' = "done"
                    /\ UNCHANGED << out, files, idx, listVars >>
               ELSE /\ out' = ret.recs
                    /\ authors_statements' = << AuthorsHeader >>
                    /\ years_statements' = << YearsHeader >>
                    /\ idx' = 1
                    /\ IF Len(ret.recs) = 0
                       THEN /\ pc' = "done"
                            /\ files' = write_statements(<< AuthorsHeader >>,
                                                         << YearsHeader >>)
                       ELSE /\ pc' = "loop"
                            /\ UNCHANGED files
    /\ UNCHANGED << fn, rr, langcode, authVars, citeVars, parseVars >>

\* lines 620-645: one record of o; after the last one, lines 646-654
NameByKeyStep ==
    /\ pc = "loop"
    /\ fn = "quickstatements_taxon_author_citations_from_index_fungorum"
    /\ \E resp \in NameByKeyResponses :
        LET rec == out[idx]
            good == HttpOk(resp) /\ resp.status_code = 200
            authors == IF good THEN authors_statements \o authors_rows(rec, resp.body)
                       ELSE authors_statements
            years == IF good THEN years_statements \o years_rows(rec, resp.body)
                     ELSE years_statements
        IN  /\ rr' = resp
            /\ calls' = Append(calls, Get("indexfungorum", rec.indexFungorum, resp.status_code))
            /\ authors_statements' = authors
            /\ years_statements' = years
            /\ idx' = idx + 1
            /\ IF idx + 1 > Len(out)
               THEN pc' = "done" /\ files' = write_statements(authors, years)
               ELSE pc' = "loop" /\ UNCHANGED files
    /\ UNCHANGED << fn, r, out, langcode, authVars, citeVars, parseVars >>

(***************************************************************************)
(* get_taxon_author_citations_but_no_taxon_author,                          *)
(* get_items_from_botanical_author_citation and                             *)
(* quickstatements_taxon_authors_from_citations                             *)
(***************************************************************************)
U3 == << "w", "d", "/", "e", "/", "Q", "3" >>
U4 == << "w", "d", "/", "e", "/", "Q", "4" >>

AandB == << "A", " ", "&", " ", "B" >>
BexA == << "B", " ", "e", "x", " ", "A" >>
AcommaA == << "A", ",", " ", "A" >>

\* the result nodes of the query for taxa with an author citation: three
\* citations that parse, one that does not, and a node whose item is no URI
CitationRows ==
    { [item |-> Uri(U1), taxonName |-> Literal(Aus), taxonAuthorCitation |-> Literal(AandB)],
      [item |-> Uri(U1), taxonName |-> Literal(Aus), taxonAuthorCitation |-> Literal(AcommaA)],
      [item |-> Uri(U2), taxonName |-> Literal(Bus), taxonAuthorCitation |-> Literal(BexA)],
      [item |-> Uri(U2), taxonName |-> Literal(Bus), taxonAuthorCitation |-> Literal(ASemiB)],
      [item |-> Literal(Aus), taxonName |-> Literal(Aus),
       taxonAuthorCitation |-> Literal(AandB)] }

CitationResponses ==
    {NoResponse} \cup { [ok |-> TRUE, results |-> d] : d \in SeqUpTo(CitationRows, MaxRows) }

Range(f) == { f[k] : k \in DOMAIN f }

\* auth_parsed_from giving up at the first citation that does not parse
RECURSIVE auth_parsed_until_failure(_, _, _)
auth_parsed_until_failure(o, k, d) ==
    IF k > Len(o) THEN d
    ELSE LET parse_out == parse_botanical_taxon_author_citation(o[k].taxonAuthorCitation)
         IN  IF parse_out.ret = "None" THEN d
             ELSE auth_parsed_until_failure(o, k + 1,
                      IF dict_has(d, o[k].item)
                      THEN [j \in 1..Len(d) |->
                              IF d[j].key = o[k].item
                              THEN [d[j] EXCEPT !.val = parse_out] ELSE d[j]]
                      ELSE Append(d, [key |-> o[k].item, val |-> parse_out]))

\* lines 797-803: auth_parsed[rec['item']] is the parse of the last record
\* of the item whose citation parses
RECURSIVE auth_parsed_from(_, _, _)
auth_parsed_from(o, k, d) ==
    IF k > Len(o) THEN d
    ELSE LET parse_out == parse_botanical_taxon_author_citation(o[k].taxonAuthorCitation)
         IN  IF parse_out.ret = "None" THEN auth_parsed_from(o, k + 1, d)
             ELSE auth_parsed_from(o, k + 1,
                      IF dict_has(d, o[k].item)
                      THEN [j \in 1..Len(d) |->
                              IF d[j].key = o[k].item
                              THEN [d[j] EXCEPT !.val = parse_out] ELSE d[j]]
                      ELSE Append(d, [key |-> o[k].item, val |-> parse_out]))

auth_parsed(o) == auth_parsed_from(o, 1, << >>)

\* lines 804-809: set(auths)
auths_set(d) ==
    UNION { Range(d[k].val.auth) \cup Range(d[k].val.ex_auth) : k \in 1..Len(d) }

\* list(set(auths)): the distinct abbreviations, in an order Python does
\* not fix
ListsOf(S) ==
    { f \in [1..Cardinality(S) -> S] : \A x \in S : \E k \in 1..Cardinality(S) : f[k] = x }

chunksize == 25

\* chunk_of leaving out the last value of a full chunk
chunk_of_short(as, k) ==
    SubSeq(as, (k - 1) * chunksize + 1,
           IF k * chunksize < Len(as) THEN k * chunksize - 1 ELSE Len(as))

\* line 753: the k-th chunk
chunk_of(as, k) ==
    SubSeq(as, (k - 1) * chunksize + 1,
           IF k * chunksize < Len(as) THEN k * chunksize ELSE Len(as))

\* the answers of the query service for a chunk: items carrying one of the
\* abbreviations asked for, and a node whose item is no URI
ItemRows(chunk) ==
    { [item |-> Uri(U), value |-> Literal(a), itemLabel |-> Literal(<< "label" >>)] :
        U \in {U3, U4}, a \in Range(chunk) }
    \cup { [item |-> Literal(Aus), value |-> Literal(chunk[1])] }

ItemResponses(chunk) ==
    {NoResponse} \cup
    { [ok |-> TRUE, results |-> d] : d \in SeqUpTo(ItemRows(chunk), MaxHits) }

Sleep(s) == [call |-> "time.sleep", url |-> "", arg |-> << ToString(s) >>, status |-> 0]

\* line 772: {r['value'] : r['item'] for r in out}: the last record of a
\* value gives its item
in_auth2qid(items, a) == \E k \in 1..Len(items) : items[k].value = a

auth2qid(items, a) ==
    LET last == CHOOSE k \in 1..Len(items) :
                    /\ items[k].value = a
                    /\ \A j \in (k + 1)..Len(items) : items[j].value # a
    IN  items[last].item

TaxonAuthorFile == "add_taxon_author.csv"
ExTaxonAuthorFile == "add_ex_taxon_author.csv"
QsAuthsHeader == << << "qid" >>, << "P225" >>, << "qal405" >>, << "#" >> >>
QsExAuthsHeader == << << "qid" >>, << "P225" >>, << "qal697" >>, << "#" >> >>

\* lines 825 and 829
author_line(rec, items, a) ==
    << rec.item, TripleQuote(rec.taxonName), auth2qid(items, a),
       << "matched from taxon author citation string" >> >>

\* author_lines writing one row for a citation, for its first linked author
author_lines_first(rec, items, abbrevs) ==
    LET linked(a) == in_auth2qid(items, a)
        found == SelectSeq(abbrevs, linked)
    IN  IF Len(found) = 0 THEN << >> ELSE << author_line(rec, items, found[1]) >>

\* lines 823-825 (828-829): the rows of one list of abbreviations
author_lines(rec, items, abbrevs) ==
    LET linked(a) == in_auth2qid(items, a)
        found == SelectSeq(abbrevs, linked)
    IN  [k \in 1..Len(found) |-> author_line(rec, items, found[k])]

\* lines 820-829, from record k on; which is "auth" or "ex_auth"
RECURSIVE qs_rows_from(_, _, _, _)
qs_rows_from(o, k, items, which) ==
    IF k > Len(o) THEN << >>
    ELSE LET authors == parse_botanical_taxon_author_citation(o[k].taxonAuthorCitation)
         IN  (IF authors.ret # "None" /\ which \in authors.keys
              THEN author_lines(o[k], items, authors[which])
              ELSE << >>)
             \o qs_rows_from(o, k + 1, items, which)

qs_auths(o, items) == << QsAuthsHeader >> \o qs_rows_from(o, 1, items, "auth")
qs_exauths(o, items) == << QsExAuthsHeader >> \o qs_rows_from(o, 1, items, "ex_auth")

\* lines 830-840
write_authors(o, items) ==
    IF Len(qs_exauths(o, items)) > 1
    THEN (TaxonAuthorFile :> qs_auths(o, items))
         @@ (ExTaxonAuthorFile :> qs_exauths(o, items))
    ELSE (TaxonAuthorFile :> qs_auths(o, items))

\* lines 795-811; with no abbreviation to look up, also lines 812-840.
\* For a response that is not ok the getter returns None, and "r, o = None"
\* raises TypeError
GetTaxonAuthorCitations ==
    /\ pc = "start"
    /\ fn = "quickstatements_taxon_authors_from_citations"
    /\ \E r1 \in CitationResponses :
        LET ret == parse_sparql_return(r1, {"item"}, {"taxonName", "taxonAuthorCitation"})
        IN  /\ r' = r1
            /\ calls' = Append(calls, Get("wdqs", << fn >>, QueryStatus(r1)))
            /\ IF ret.status # "list"
               THEN pc' = "raised"
                    /\ UNCHANGED << out, files, idx, authVars >>
               ELSE /\ out' = ret.recs
                    /\ auths' \in ListsOf(auths_set(auth_parsed(ret.recs)))
                    /\ items_out' = << >>
                    /\ idx' = 1
                    /\ IF Len(auths') = 0
                       THEN pc' = "done" /\ files' = write_authors(ret.recs, << >>)
                       ELSE pc' = "lookup" /\ UNCHANGED files
    /\ UNCHANGED << fn, rr, langcode, listVars, citeVars, parseVars >>

\* lines 753-771: one chunk; after the last one, lines 772-773 and 812-840
AuthorLookupStep ==
    /\ pc = "lookup"
    /\ fn = "quickstatements_taxon_authors_from_citations"
    /\ LET chunk == chunk_of(auths, idx)
       IN  \E resp \in ItemResponses(chunk) :
            LET ret == parse_sparql_return(resp, {"item"}, {"value", "itemLabel"})
                items == IF resp.ok THEN items_out \o ret.recs ELSE items_out
            IN  /\ rr' = resp
                /\ IF ret.status = "raised"
                   THEN /\ pc' = "raised"
                        /\ calls' = Append(calls, Get("wdqs", chunk, QueryStatus(resp)))
                        /\ UNCHANGED << items_out, idx, files >>
                   ELSE /\ calls' = calls \o << Get("wdqs", chunk, QueryStatus(resp)), Sleep(1) >>
                        /\ items_out' = items
                        /\ idx' = idx + 1
                        /\ IF idx * chunksize >= Len(auths)
                           THEN pc' = "done" /\ files' = write_authors(out, items)
                           ELSE pc' = "lookup" /\ UNCHANGED files
    /\ UNCHANGED << fn, r, out, auths, langcode, listVars, citeVars, parseVars >>

DescFns == {"quickstatements_taxon_add_desc",
            "quickstatements_taxon_add_desc_long",
            "quickstatements_articles_add_desc"}

CitationFns == {"quickstatements_taxon_author_citations_from_index_fungorum",
                "quickstatements_taxon_authors_from_citations"}

(***************************************************************************)
(* Spec: one call of one of the pipelines.                                  *)
(***************************************************************************)
Init ==
    /\ pc = "start"
    /\ fn \in IdentFns \cup DescFns \cup CitationFns
    /\ r = NoResponse
    /\ out = << >>
    /\ idx = 0
    /\ rr = NoAnswer
    /\ calls = << >>
    /\ files = << >>
    /\ langcode \in (IF fn \in DescFns THEN {"en", "de"} ELSE {"en"})
    /\ IdleLists
    /\ IdleAuth
    /\ IdleCite
    /\ IdleParse

Next ==
    \/ QuickstatementsTaxonAddDesc
    \/ QuickstatementsTaxonAddDescLong
    \/ QuickstatementsArticlesAddDesc
    \/ GetFungiMissingTaxonAuthorCitation
    \/ NameByKeyStep
    \/ GetTaxonAuthorCitations
    \/ AuthorLookupStep
    \/ GetTaxaMissingIdentifier
    \/ IrmngStep
    \/ GbifStep
    \/ IndexFungorumStep

Spec == Init /\ [][Next]_vars

(***************************************************************************)
(* SpecLookup: one call of get_items_from_botanical_author_citation, on a   *)
(* list of up to MaxAuths abbreviations.  The answer to a chunk is not ok,  *)
(* or holds no node, an item for the first abbreviation of the chunk, or a  *)
(* node whose item is no URI.                                               *)
(***************************************************************************)
MaxAuths == 51

GetItems == "get_items_from_botanical_author_citation"

Abbrev(k) == << "Auth", ToString(k) >>

LookupResponses(chunk) ==
    {NoResponse} \cup
    { [ok |-> TRUE, results |-> d] : d \in SeqUpTo(ItemRows(<< chunk[1] >>), 1) }

InitLookup ==
    /\ fn = GetItems
    /\ \E n \in 0..MaxAuths : auths = [k \in 1..n |-> Abbrev(k)]
    /\ pc = IF Len(auths) = 0 THEN "done" ELSE "lookup"
    /\ items_out = << >>
    /\ idx = 1
    /\ r = NoResponse
    /\ out = << >>
    /\ rr = NoAnswer
    /\ calls = << >>
    /\ files = << >>
    /\ langcode = "en"
    /\ IdleLists
    /\ IdleCite
    /\ IdleParse

\* lines 753-771: one chunk; after the last one, lines 772-773
GetItemsChunk ==
    /\ pc = "lookup"
    /\ fn = GetItems
    /\ LET chunk == chunk_of(auths, idx)
       IN  \E resp \in LookupResponses(chunk) :
            LET ret == parse_sparql_return(resp, {"item"}, {"value", "itemLabel"})
            IN  /\ rr' = resp
                /\ IF ret.status = "raised"
                   THEN /\ pc' = "raised"
                        /\ calls' = Append(calls, Get("wdqs", chunk, QueryStatus(resp)))
                        /\ UNCHANGED << items_out, idx >>
                   ELSE /\ calls' = calls \o << Get("wdqs", chunk, QueryStatus(resp)), Sleep(1) >>
                        /\ items_out' = IF resp.ok THEN items_out \o ret.recs ELSE items_out
                        /\ idx' = idx + 1
                        /\ pc' = IF idx * chunksize >= Len(auths) THEN "done" ELSE "lookup"
    /\ UNCHANGED << fn, r, out, auths, files, langcode, listVars, citeVars, parseVars >>

NextLookup == GetItemsChunk

SpecLookup == InitLookup /\ [][NextLookup]_vars

(***************************************************************************)
(* Properties of the citation parser, stated on the citation text itself.  *)
(***************************************************************************)
\* the text left once a single ')' and everything before it is discarded
TextAfterParen(c) ==
    IF Cardinality({k \in 1..Len(c) : c[k] = ")"}) = 1
    THEN SubSeq(c, (CHOOSE k \in 1..Len(c) : c[k] = ")") + 1, Len(c))
    ELSE c

\* the text left once a single " in " and everything after it is discarded
TextBeforeIn(t) ==
    IF str_count(t, SepIn) = 1 THEN SubSeq(t, 1, str_find(t, SepIn, 1) - 1) ELSE t

\* the text that is split into authors
TextSplit(c) == TextBeforeIn(TextAfterParen(c))

Unparseable(c) ==
    \/ Cardinality({k \in 1..Len(c) : c[k] = ")"}) > 1
    \/ \E k \in 1..Len(TextAfterParen(c)) : TextAfterParen(c)[k] \in {":", ";", "?"}
    \/ str_count(TextSplit(c), SepEx) > 1

\* the k-th of the pieces of t that ',' and '&' delimit, trimmed and with
\* ". " compressed to "."
SepPositions(t) == {k \in 1..Len(t) : t[k] \in {",", "&"}}
PieceStart(t, k) ==
    IF k = 1 THEN 1
    ELSE 1 + CHOOSE p \in SepPositions(t) :
                 Cardinality({q \in SepPositions(t) : q < p}) = k - 2
PieceEnd(t, k) ==
    IF k = Cardinality(SepPositions(t)) + 1 THEN Len(t)
    ELSE (CHOOSE p \in SepPositions(t) :
              Cardinality({q \in SepPositions(t) : q < p}) = k - 1) - 1
Tokens(t) ==
    [k \in 1..(Cardinality(SepPositions(t)) + 1) |->
        str_lstrip(str_rstrip(
            str_replace(SubSeq(t, PieceStart(t, k), PieceEnd(t, k)),
                        << ".", " " >>, << "." >>)))]

\* C7: the parser returns nothing exactly when the citation has more than
\* one ')', or ':', ';' or '?' in the text left after the basionym segment,
\* or more than one " ex " in the text that is split; otherwise it returns
\* a result whose 'auth' list is not empty. "A ex B ex C" and "A; B" yield
\* nothing.
C7_NothingIffUnparseable ==
    pc = "done" =>
        /\ (parsed.ret = "None") <=> Unparseable(citation)
        /\ parsed.ret = "None" => (parsed.keys = {} /\ parsed.auth = << >>)
        /\ parsed.ret # "None" => ("auth" \in parsed.keys /\ Len(parsed.auth) > 0)
        /\ citation \in {AExBExC, ASemiB} => parsed.ret = "None"

C7_Witness ==
    /\ pc = "done"
    /\ citation = AExBExC
    /\ parsed.ret = "None"

\* C8: a successful parse has 'ex_auth' iff " ex " occurs exactly once in
\* the text that is split; then 'ex_auth' is the token list of the text
\* before the separator and 'auth' that of the text after it, otherwise
\* 'auth' is the token list of the whole text. Tokens keep their order, are
\* trimmed and have ". " compressed to ".".
C8_ExAuthSplit ==
    (pc = "done" /\ parsed.ret = "dict") =>
        LET t == TextSplit(citation)
            p == str_find(t, SepEx, 1)
        IN  /\ ("ex_auth" \in parsed.keys) <=> (str_count(t, SepEx) = 1)
            /\ IF str_count(t, SepEx) = 1
               THEN /\ parsed.ex_auth = Tokens(SubSeq(t, 1, p - 1))
                    /\ parsed.auth = Tokens(SubSeq(t, p + 4, Len(t)))
               ELSE parsed.auth = Tokens(t)
            /\ citation = DocCitation =>
                   /\ parsed.keys = {"auth"}
                   /\ parsed.auth =
                        << <<"T", "r", "a", "p", "p", "e">>,
                           <<"T", ".", "L", "e", "b", "e", "l">>,
                           <<"C", "a", "s", "t", "e", "l", "l", "a", "n", "o">> >>
            /\ citation = FrExFr =>
                   /\ parsed.keys = {"ex_auth", "auth"}
                   /\ parsed.ex_auth = << <<"F", "r", ".">> >>
                   /\ parsed.auth = << <<"F", "r", ".">> >>

C8_Witness ==
    /\ pc = "done"
    /\ citation = FrExFr
    /\ "ex_auth" \in parsed.keys
    /\ parsed.auth = << <<"F", "r", ".">> >>

\* C9: in a successful parse no token of 'auth' or 'ex_auth' holds a period
\* immediately followed by a space, and none starts or ends with whitespace.
CleanToken(a) ==
    /\ ~ \E k \in 1..(Len(a) - 1) : a[k] = "." /\ a[k + 1] = " "
    /\ Len(a) > 0 => (a[1] \notin Whitespace /\ a[Len(a)] \notin Whitespace)

C9_NoSpaceAfterPeriod ==
    (pc = "done" /\ parsed.ret = "dict") =>
        /\ \A k \in 1..Len(parsed.auth) : CleanToken(parsed.auth[k])
        /\ \A k \in 1..Len(parsed.ex_auth) : CleanToken(parsed.ex_auth[k])

(***************************************************************************)
(* Properties of parse_sparql_return.                                       *)
(***************************************************************************)
\* every declared binding of every result node has the child it is read by
WellFormed(resp, us, ls) ==
    \A k \in 1..Len(resp.results) : ~ row_raises(resp.results[k], us, ls)

\* C3: for an ok response with a well-formed document, the parser returns
\* one record per result node, in document order, and the keys of every
\* record are among uris and literals.
C3_RecordsInOrderKeysDeclared ==
    (pc \in {"done", "raised"} /\ r.ok /\ WellFormed(r, uris, literals)) =>
        /\ out.status = "list"
        /\ Len(out.recs) = Len(r.results)
        /\ \A k \in 1..Len(out.recs) :
              /\ DOMAIN out.recs[k] \subseteq (uris \cup literals)
              /\ \A key \in DOMAIN out.recs[k] \cap literals :
                    out.recs[k][key] = r.results[k][key].text

\* what does hold: one record per result node, in document order, with the
\* keys of that node's bindings
C3_OneRecordPerNode ==
    (pc \in {"done", "raised"} /\ r.ok /\ WellFormed(r, uris, literals)) =>
        /\ out.status = "list"
        /\ Len(out.recs) = Len(r.results)
        /\ \A k \in 1..Len(out.recs) : DOMAIN out.recs[k] = DOMAIN r.results[k]

(***************************************************************************)
(* Properties of the identifier pipelines.                                  *)
(***************************************************************************)
IRMNG == "quickstatements_taxon_add_IRMNG_ID"
GBIF == "quickstatements_taxon_add_GBIF_ID"
IXF == "quickstatements_taxon_add_IndexFungorum_ID"
IXFCitations == "quickstatements_taxon_author_citations_from_index_fungorum"
TaxonAuthors == "quickstatements_taxon_authors_from_citations"

\* the data rows of a file: its lines after the header
DataRows(name) ==
    IF name \in DOMAIN files THEN Len(files[name]) - 1 ELSE 0

\* a step of a lookup loop that issued a request
LookedUp == pc = "loop" /\ Len(calls') > Len(calls)

\* the hits of an answer that pass the local filter of exact equality
IrmngSurvivors(body) ==
    { j \in 1..Len(body) :
        "kingdom" \in DOMAIN body[j] /\ body[j].kingdom = << "Fungi" >> }

IxfSurvivors(body, name) ==
    { j \in 1..Len(body) :
        /\ "AUTHORS" \in DOMAIN body[j]
        /\ body[j].NAME_x0020_OF_x0020_FUNGUS = name
        /\ body[j].INFRASPECIFIC_x0020_RANK = << "gen." >> }

\* the identifier the only survivor carries, as it is written
SurvivorId(f, body, name) ==
    IF f = IRMNG
    THEN << ToString(body[CHOOSE j \in IrmngSurvivors(body) : TRUE].IRMNG_ID) >>
    ELSE body[CHOOSE j \in IxfSurvivors(body, name) : TRUE].RECORD_x0020_NUMBER

\* C1: in the IRMNG and Index Fungorum pipelines, a step of the loop writes
\* a data row iff it looked the candidate up, the authority answered with
\* hits, and exactly one hit passes the local filter of exact equality;
\* the row then carries the candidate's qid and that hit's identifier.
\* With no or several survivors nothing is written.
C1_RowIffOneSurvivor ==
    [][ (pc = "loop" /\ fn \in {IRMNG, IXF}) =>
          LET cand == out[idx].val[1]
              one == /\ LookedUp
                     /\ rr'.status_code = 200
                     /\ Cardinality(IF fn = IRMNG THEN IrmngSurvivors(rr'.body)
                                    ELSE IxfSurvivors(rr'.body, cand.taxonName)) = 1
              file == IdentFile(fn)
          IN  /\ (files' # files) <=> one
              /\ one =>
                   /\ Len(files'[file]) = Len(files[file]) + 1
                   /\ SubSeq(files'[file], 1, Len(files[file])) = files[file]
                   /\ files'[file][Len(files'[file])][1] = cand.qid
                   /\ files'[file][Len(files'[file])][2] =
                        TripleQuote(SurvivorId(fn, rr'.body, cand.taxonName))
      ]_vars

\* two hits pass the filter and no row was written
C1_Witness ==
    /\ fn = IRMNG
    /\ pc = "done"
    /\ rr.status_code = 200
    /\ Cardinality(IrmngSurvivors(rr.body)) = 2
    /\ Len(calls) = 2
    /\ DataRows(IrmngFile) = 0

\* the text of a URI after its last '/'
QidOf(uri) ==
    LET slashes == { k \in 1..Len(uri) : uri[k] = "/" }
        last == CHOOSE k \in slashes : \A j \in slashes : j <= k
    IN  SubSeq(uri, last + 1, Len(uri))

\* the result nodes of the query that give a record, and those of a name
ParsedNodes ==
    { k \in 1..Len(r.results) :
        /\ {"item", "taxonName"} \subseteq DOMAIN r.results[k]
        /\ r.results[k].item.kind = "uri"
        /\ r.results[k].taxonName.kind = "literal" }

NodesNamed(name) == { k \in ParsedNodes : r.results[k].taxonName.text = name }

AuthorityCalls == SelectSeq(calls, LAMBDA c : c.url \in {"irmng", "gbif", "indexfungorum"})

\* C2: in the three identifier pipelines no authority is asked about a
\* taxon name that is not the name of exactly one record of the query
\* result, and a row is only written for the single record of such a name.
C2_UniqueGroupsOnly ==
    /\ [](fn \in IdentFns =>
            \A j \in 1..Len(AuthorityCalls) :
                Cardinality(NodesNamed(AuthorityCalls[j].arg)) = 1)
    /\ [][ (fn \in IdentFns /\ pc = "loop" /\ files' # files) =>
             /\ Cardinality(NodesNamed(out[idx].key)) = 1
             /\ LET k == CHOOSE n \in NodesNamed(out[idx].key) : TRUE
                    file == IdentFile(fn)
                IN  /\ Len(files'[file]) = Len(files[file]) + 1
                    /\ files'[file][Len(files'[file])][1]
                         = QidOf(r.results[k].item.text)
         ]_vars

\* two records share a name: the run ends with no lookup and no row
C2_Witness ==
    /\ fn = GBIF
    /\ pc = "done"
    /\ Len(r.results) = 2
    /\ Cardinality(NodesNamed(Aus)) = 2
    /\ Len(AuthorityCalls) = 0
    /\ DataRows(GbifFile) = 0

\* the names the authority is to be asked about, in the order of the query
\* result: for the identifier pipelines the names of exactly one record,
\* for the citation pipeline the Index Fungorum key of every record
Candidates ==
    IF fn \in IdentFns
    THEN LET nodes == SelectSeq([k \in 1..Len(r.results) |-> k],
                          LAMBDA k : /\ k \in ParsedNodes
                                     /\ NodesNamed(r.results[k].taxonName.text) = {k})
         IN  [n \in 1..Len(nodes) |-> r.results[nodes[n]].taxonName.text]
    ELSE [k \in 1..Len(r.results) |-> r.results[k].indexFungorum.text]

\* the answer rr' is one the pipeline is to accept
Matches(resp, cand) ==
    /\ resp.status_code = 200
    /\ IF fn = IRMNG THEN Cardinality(IrmngSurvivors(resp.body)) = 1
       ELSE IF fn = IXF THEN Cardinality(IxfSurvivors(resp.body, cand.taxonName)) = 1
       ELSE IF fn = GBIF
       THEN /\ resp.body.matchType = "EXACT"
            /\ "kingdom" \in DOMAIN resp.body
            /\ resp.body.kingdom = << "Fungi" >>
       ELSE \E j \in 1..Len(resp.body) :
               {"AUTHORS", "YEAR_x0020_OF_x0020_PUBLICATION"} \subseteq DOMAIN resp.body[j]

LookupFns == IdentFns \cup {IXFCitations}

\* C6: in the lookup loops every candidate is asked about exactly once and
\* in order, whatever the earlier answers were; an answer that is not ok
\* writes no row and collects none, and is not asked for again; an answer
\* that matches writes or collects a row, also after a failed one.
C6_FailedLookupSkipsOneCandidate ==
    /\ []((fn \in LookupFns /\ r.ok /\ pc \in {"loop", "done"}) =>
            /\ Len(AuthorityCalls) <= Len(Candidates)
            /\ \A j \in 1..Len(AuthorityCalls) : AuthorityCalls[j].arg = Candidates[j]
            /\ pc = "done" => Len(AuthorityCalls) = Len(Candidates))
    /\ [][ (fn \in LookupFns /\ LookedUp) =>
             /\ Len(calls') = Len(calls) + 1
             /\ idx' = idx + 1
             /\ rr'.status_code # 200 =>
                  /\ authors_statements' = authors_statements
                  /\ years_statements' = years_statements
                  /\ fn \in IdentFns => files' = files
             /\ Matches(rr', IF fn \in IdentFns THEN out[idx].val[1] ELSE out[idx]) =>
                  IF fn \in IdentFns
                  THEN Len(files'[IdentFile(fn)]) = Len(files[IdentFile(fn)]) + 1
                  ELSE Len(authors_statements') > Len(authors_statements)
         ]_vars

\* the first lookup failed, the second one matched and gave the only row
C6_Witness ==
    /\ fn = GBIF
    /\ pc = "done"
    /\ Len(AuthorityCalls) = 2
    /\ AuthorityCalls[1].status = 500
    /\ AuthorityCalls[2].status = 200
    /\ DataRows(GbifFile) = 1

(***************************************************************************)
(* Properties of the query boundary.                                        *)
(***************************************************************************)
\* the result nodes that have the sub-nodes the caller reads
GoodNodes ==
    IF fn \in IdentFns THEN ParsedNodes
    ELSE { k \in 1..Len(r.results) : r.results[k].item.kind = "uri" }

\* the records the caller holds after the query
RecordCount ==
    IF fn \in IdentFns
    THEN Cardinality(UNION { {<< k, j >> : j \in 1..Len(out[k].val)} : k \in 1..Len(out) })
    ELSE Len(out)

\* C4: a malformed result node fails alone: the call does not abort and
\* every other node of the document gives its record, in
\* parse_sparql_return as in the loop of get_taxa_missing_identifier.
C4_MalformedRowFailsAlone ==
    (pc # "start" /\ r.ok) =>
        /\ pc # "raised"
        /\ RecordCount = Cardinality(GoodNodes)

\* the half of C4 that holds: the loop of get_taxa_missing_identifier
C4_TaxaLoopSkipsRow ==
    (pc # "start" /\ r.ok /\ fn \in IdentFns) =>
        /\ pc # "raised"
        /\ RecordCount = Cardinality(GoodNodes)

\* C5: when the query service answers with a response that is not ok, the
\* entry point ends normally and writes no data row.
C5_NonOkEndsNormally ==
    (pc # "start" /\ ~ r.ok) =>
        /\ pc = "done"
        /\ \A f \in DOMAIN files : Len(files[f]) <= 1

(***************************************************************************)
(* Properties of the row count.                                             *)
(***************************************************************************)
ParseOf(k) == parse_botanical_taxon_author_citation(out[k].taxonAuthorCitation)

ParsedRecs == { k \in 1..Len(out) : ParseOf(k).ret = "dict" }

Linked(a) == \E j \in 1..Len(items_out) : items_out[j].value = a

\* the places <<record, position>> of the abbreviations of a list that the
\* lookup linked to an item
LinkedTokens(which) ==
    UNION { { << k, j >> : j \in { n \in 1..Len(ParseOf(k)[which]) :
                                     Linked(ParseOf(k)[which][n]) } } :
            k \in ParsedRecs }

BothFields(body) ==
    { j \in 1..Len(body) :
        {"AUTHORS", "YEAR_x0020_OF_x0020_PUBLICATION"} \subseteq DOMAIN body[j] }

FreeTextFields(name) ==
    IF name \in {IrmngFile, GbifFile} THEN {2, 5}
    ELSE IF name = IxfFile THEN {2, 6}
    ELSE {2}

Wrapped(field) ==
    /\ Len(field) >= 2
    /\ field[1] = "\"\"\""
    /\ field[Len(field)] = "\"\"\""

\* C11: in every data row of every file, each field holding a taxon name or
\* free text (description, comment built from supplied names, string of the
\* authority) is wrapped in triple quotes.
C11_FreeTextWrapped ==
    \A name \in DOMAIN files :
        \A k \in 2..Len(files[name]) :
            \A p \in FreeTextFields(name) : Wrapped(files[name][k][p])

\* the part of C11 the code keeps: identifiers, taxon names and author
\* citations are wrapped
C11_NamesWrapped ==
    \A name \in DOMAIN files \ {DescFile} :
        \A k \in 2..Len(files[name]) :
            \A p \in FreeTextFields(name) \ {5} : Wrapped(files[name][k][p])

\* the column header of a file
HeaderOf(name) ==
    IF name = IrmngFile THEN IrmngHeader
    ELSE IF name = GbifFile THEN GbifHeader
    ELSE IF name = IxfFile THEN IxfHeader
    ELSE IF name = DescFile THEN DescHeader
    ELSE IF name = AuthorsFile THEN AuthorsHeader
    ELSE IF name = YearsFile THEN YearsHeader
    ELSE IF name = TaxonAuthorFile THEN QsAuthsHeader
    ELSE QsExAuthsHeader

IsPrefix(s, t) == Len(s) <= Len(t) /\ SubSeq(t, 1, Len(s)) = s

\* the result nodes of the query a data row may come from: those of the
\* row's item
Origin(row) ==
    { k \in 1..Len(r.results) :
        /\ "item" \in DOMAIN r.results[k]
        /\ r.results[k].item.kind = "uri"
        /\ QidOf(r.results[k].item.text) = row[1] }

\* the data rows can be traced to result nodes in the order of the result
InResultOrder(rows) ==
    \E g \in [1..Len(rows) -> 1..Len(r.results)] :
        /\ \A k \in 1..Len(rows) : g[k] \in Origin(rows[k])
        /\ \A j, k \in 1..Len(rows) : j < k => g[j] <= g[k]

\* C12: every file written starts with its column header, its data rows
\* follow in the order of the records in the query result, and rows are
\* only ever appended to a file or a list of statements.
C12_HeaderFirstRowsInOrder ==
    /\ [](\A name \in DOMAIN files :
            /\ Len(files[name]) >= 1
            /\ files[name][1] = HeaderOf(name)
            /\ InResultOrder(SubSeq(files[name], 2, Len(files[name]))))
    /\ [][ /\ \A name \in DOMAIN files :
                name \in DOMAIN files' /\ IsPrefix(files[name], files'[name])
           /\ IsPrefix(authors_statements, authors_statements')
           /\ IsPrefix(years_statements, years_statements')
         ]_vars

\* two candidates of different items each gave a row
C12_Witness ==
    /\ fn = IRMNG
    /\ pc = "done"
    /\ DataRows(IrmngFile) = 2
    /\ files[IrmngFile][2][1] # files[IrmngFile][3][1]

(***************************************************************************)
(* Properties of the author lookup.                                         *)
(***************************************************************************)
IsRequest(c) == c.call = "requests.get"

Requests == SelectSeq(calls, IsRequest)

RECURSIVE ConcatArgs(_)
ConcatArgs(reqs) ==
    IF Len(reqs) = 0 THEN << >> ELSE reqs[1].arg \o ConcatArgs(Tail(reqs))

Parens(c) == Cardinality({k \in 1..Len(c) : c[k] = ")"})

HasPunct(t) == \E k \in 1..Len(t) : t[k] \in {":", ";", "?"}

\* ':', ';' or '?' occurs, but only in the basionym segment that is dropped
PunctOnlyInBasionym(c) ==
    Parens(c) = 1 /\ HasPunct(c) /\ ~ HasPunct(TextAfterParen(c))

\* ':', ';' or '?' occurs, but only after the single " in "
PunctOnlyInVenue(c) ==
    /\ Parens(c) <= 1
    /\ str_count(TextAfterParen(c), SepIn) = 1
    /\ HasPunct(TextAfterParen(c))
    /\ ~ HasPunct(TextSplit(c))

\* " ex " occurs more than once, but at most once before the single " in "
ExInVenue(c) ==
    /\ Parens(c) <= 1
    /\ ~ HasPunct(TextAfterParen(c))
    /\ str_count(TextAfterParen(c), SepIn) = 1
    /\ str_count(TextAfterParen(c), SepEx) > 1
    /\ str_count(TextSplit(c), SepEx) <= 1

\* " in " occurs more than once, so that nothing is truncated
InNotTruncated(c) ==
    /\ Parens(c) <= 1
    /\ ~ HasPunct(TextAfterParen(c))
    /\ str_count(TextAfterParen(c), SepIn) > 1

\* C14: the steps act in a fixed order, each on what the one before left:
\* punctuation that lies only in the dropped basionym segment does not make
\* the parse fail; punctuation that lies only in the venue suffix does;
\* an " ex " in the truncated venue suffix does not count towards the
\* rejection of several " ex "; and the suffix is truncated only when
\* " in " occurs exactly once.
C14_StepsInFixedOrder ==
    pc = "done" =>
        /\ PunctOnlyInBasionym(citation) =>
              (parsed.ret = "None" <=> str_count(TextSplit(citation), SepEx) > 1)
        /\ PunctOnlyInVenue(citation) => parsed.ret = "None"
        /\ ExInVenue(citation) =>
              /\ parsed.ret = "dict"
              /\ ("ex_auth" \in parsed.keys)
                    <=> (str_count(TextSplit(citation), SepEx) = 1)
        /\ InNotTruncated(citation) =>
              (parsed.ret = "None"
                  <=> str_count(TextAfterParen(citation), SepEx) > 1)

\* a citation whose second " ex " lies after the " in " is parsed
C14_Witness ==
    /\ pc = "done"
    /\ ExInVenue(citation)
    /\ parsed.ret = "dict"
    /\ "ex_auth" \in parsed.keys

(***************************************************************************)
(* Properties of the taxon-author pipeline, stated on the citation texts.   *)
(***************************************************************************)
\* the abbreviations of a citation that parses, read off its text
CiteTokens(c, which) ==
    LET t == TextSplit(c)
        p == str_find(t, SepEx, 1)
    IN  IF str_count(t, SepEx) = 1
        THEN IF which = "ex_auth" THEN Tokens(SubSeq(t, 1, p - 1))
             ELSE Tokens(SubSeq(t, p + 4, Len(t)))
        ELSE IF which = "auth" THEN Tokens(t) ELSE << >>

\* the records whose citation does not parse, and the others
Skipped == { k \in 1..Len(out) : Unparseable(out[k].taxonAuthorCitation) }
Kept == (1..Len(out)) \ Skipped

AbbrevsOf(k) ==
    Range(CiteTokens(out[k].taxonAuthorCitation, "auth"))
        \cup Range(CiteTokens(out[k].taxonAuthorCitation, "ex_auth"))

FileRows(name) ==
    IF name \in DOMAIN files THEN SubSeq(files[name], 2, Len(files[name])) ELSE << >>

\* the rows of a file that name the item and the taxon of record k
RowsOfRecord(name, k) ==
    { n \in 1..Len(FileRows(name)) :
        /\ FileRows(name)[n][1] = out[k].item
        /\ FileRows(name)[n][2] = TripleQuote(out[k].taxonName) }

\* the items the lookup returned for an abbreviation
ItemsOf(a) == { items_out[j].item : j \in { n \in 1..Len(items_out) : items_out[n].value = a } }

AuthorFileOf(which) == IF which = "auth" THEN TaxonAuthorFile ELSE ExTaxonAuthorFile

\* C15: a record whose citation does not parse is passed over: the
\* abbreviations looked up are all abbreviations of records that parse;
\* when every record of an item and taxon is unparseable no row of either
\* file names them; and the other records are still processed: the
\* abbreviations of the last parsing record of each item are looked up, and
\* every linked abbreviation of a parsing record has its row.
C15_UnparseableSkipped ==
    (fn = TaxonAuthors /\ pc \in {"lookup", "done"}) =>
        /\ Range(auths) \subseteq UNION { AbbrevsOf(k) : k \in Kept }
        /\ \A k \in Kept :
              (\A j \in Kept : j > k => out[j].item # out[k].item)
                  => AbbrevsOf(k) \subseteq Range(auths)
        /\ pc = "done" =>
              /\ \A k \in Skipped : \A name \in {TaxonAuthorFile, ExTaxonAuthorFile} :
                    (\A j \in Kept : out[j].item # out[k].item
                                       \/ out[j].taxonName # out[k].taxonName)
                        => RowsOfRecord(name, k) = {}
              /\ \A k \in Kept : \A which \in {"auth", "ex_auth"} :
                    \A a \in Range(CiteTokens(out[k].taxonAuthorCitation, which)) :
                        ItemsOf(a) # {} =>
                           \E n \in RowsOfRecord(AuthorFileOf(which), k) :
                              FileRows(AuthorFileOf(which))[n][3] \in ItemsOf(a)

\* an unparseable record came first, and the record after it gave a row
C15_Witness ==
    /\ fn = TaxonAuthors
    /\ pc = "done"
    /\ Len(out) = 2
    /\ Skipped = {1}
    /\ RowsOfRecord(TaxonAuthorFile, 1) = {}
    /\ RowsOfRecord(TaxonAuthorFile, 2) # {}

\* the records the lookup returned for an abbreviation
ReturnedFor(a) == { n \in 1..Len(items_out) : items_out[n].value = a }

\* the places <<record, position>> of the abbreviations of a list for which
\* the lookup returned exactly one item
SingleMatchTokens(which) ==
    UNION { { << k, j >> :
                j \in { n \in 1..Len(CiteTokens(out[k].taxonAuthorCitation, which)) :
                          Cardinality(ItemsOf(
                              CiteTokens(out[k].taxonAuthorCitation, which)[n])) = 1 } } :
            k \in Kept }

\* C16: an abbreviation is linked to an item only when the lookup returned
\* exactly one item carrying it; one that records of two or more items
\* carry is unmatched and gives no row, so the rows of each file are as
\* many as the abbreviations with exactly one item.
C16_AmbiguousAbbreviationUnmatched ==
    (fn = TaxonAuthors /\ pc = "done") =>
        /\ DataRows(TaxonAuthorFile) = Cardinality(SingleMatchTokens("auth"))
        /\ DataRows(ExTaxonAuthorFile) = Cardinality(SingleMatchTokens("ex_auth"))

\* the part of C16 that holds: an abbreviation no record carries gives no row
C16_UnmatchedGivesNoRow ==
    (fn = TaxonAuthors /\ pc = "done") =>
        \A k \in Kept : \A which \in {"auth", "ex_auth"} :
            ( /\ \A a \in Range(CiteTokens(out[k].taxonAuthorCitation, which)) :
                    ReturnedFor(a) = {}
              /\ \A j \in 1..Len(out) :
                    (out[j].item = out[k].item /\ out[j].taxonName = out[k].taxonName)
                        => j = k )
               => RowsOfRecord(AuthorFileOf(which), k) = {}

(***************************************************************************)
(* Properties of the tokens of a parsed citation.                           *)
(***************************************************************************)
\* C17: in a successful parse, of the empty string and of strings with a
\* leading, trailing or doubled ',' or '&' too, every token of 'auth' and
\* 'ex_auth' is a non-empty string.
C17_TokensNonEmpty ==
    (pc = "done" /\ parsed.ret = "dict") =>
        /\ \A k \in 1..Len(parsed.auth) : Len(parsed.auth[k]) > 0
        /\ \A k \in 1..Len(parsed.ex_auth) : Len(parsed.ex_auth[k]) > 0

\* the part of C17 that holds: the 'auth' list itself is never empty
C17_AuthListNonEmpty ==
    (pc = "done" /\ parsed.ret = "dict") => Len(parsed.auth) > 0

(***************************************************************************)
(* Properties of the subjects of the identifier rows.                       *)
(***************************************************************************)
IdentFiles == {IrmngFile, GbifFile, IxfFile}

\* the result nodes that are the only one of their taxon name and whose
\* item is q
UniqueNodesOf(q) ==
    { k \in ParsedNodes :
        /\ NodesNamed(r.results[k].taxonName.text) = {k}
        /\ QidOf(r.results[k].item.text) = q }

\* the data rows of a file whose subject is q
RowsOfItem(name, q) == { n \in 1..Len(FileRows(name)) : FileRows(name)[n][1] = q }

\* C18 as amended: at most one identifier row is written per taxon-name
\* key of exactly one record: every lookup step adds at most one row, and
\* the rows of an item are at most as many as the names under which the
\* item is the only record.  An item that appears under two names, each
\* the only record of its name, may get two rows.
C18_OneRowPerNameKey ==
    /\ [](\A name \in IdentFiles \cap DOMAIN files :
            \A n \in 1..Len(FileRows(name)) :
               Cardinality(RowsOfItem(name, FileRows(name)[n][1]))
                   <= Cardinality(UniqueNodesOf(FileRows(name)[n][1])))
    /\ [][ \A name \in IdentFiles \cap DOMAIN files :
              Len(files'[name]) <= Len(files[name]) + 1 ]_vars

\* one item under two names got two rows
C18_Witness ==
    /\ fn = IRMNG
    /\ pc = "done"
    /\ DataRows(IrmngFile) = 2
    /\ files[IrmngFile][2][1] = files[IrmngFile][3][1]

\* C18 as stated: in the output of an identifier pipeline no two data rows
\* carry the same subject qid.
C18_OneRowPerItem ==
    \A name \in IdentFiles \cap DOMAIN files :
        \A m, n \in 1..Len(FileRows(name)) :
            m # n => FileRows(name)[m][1] # FileRows(name)[n][1]

====
